---- MODULE Spec2Model ----
(***************************************************************************)
(* A model of wav2multi-lib: the G.711 companding transforms, the format  *)
(* encoders, the codec registry and the transcoding orchestrator.          *)
(***************************************************************************)
EXTENDS Integers, Sequences, FiniteSets, TLC

(***************************************************************************)
(* Bounds of the model.                                                    *)
(***************************************************************************)
\* longest sample sequence handed to an encoder under SpecEncode
MaxLen == 2
\* longest sample sequence stored in the input WAV under Spec
MaxSamples == 2
\* largest number of writes a failing sink accepts before it fails
MaxWrites == 1
\* G.729 frames per Encode call
MaxFrames == 3

(***************************************************************************)
(* Go integer arithmetic: int16 wraps, >> on a signed value is an          *)
(* arithmetic shift, byte(x) keeps the low 8 bits.                         *)
(***************************************************************************)
Int16 == -32768 .. 32767

Wrap16(x) ==
    LET m == x % 65536
    IN  IF m >= 32768 THEN m - 65536 ELSE m

Shr(x, n) == x \div (2 ^ n)

ToByte(x) == x % 256

RECURSIVE BitOr(_, _, _)
BitOr(a, b, n) ==
    IF n = 0 THEN 0
    ELSE (IF a % 2 = 1 \/ b % 2 = 1 THEN 1 ELSE 0)
         + 2 * BitOr(a \div 2, b \div 2, n - 1)

RECURSIVE BitXor(_, _, _)
BitXor(a, b, n) ==
    IF n = 0 THEN 0
    ELSE (IF a % 2 # b % 2 THEN 1 ELSE 0)
         + 2 * BitXor(a \div 2, b \div 2, n - 1)

Or8(a, b) == BitOr(a, b, 8)
Xor8(a, b) == BitXor(a, b, 8)
Not8(a) == BitXor(a, 255, 8)

(***************************************************************************)
(* The companding transforms.                                              *)
(***************************************************************************)
\* for temp > 0 { segment++; temp >>= 1 }
RECURSIVE SegmentLoop(_, _)
SegmentLoop(temp, segment) ==
    IF temp > 0 THEN SegmentLoop(Shr(temp, 1), segment + 1) ELSE segment

\* if sign { pcm = -pcm }: pcm after the negation step
Magnitude(pcm) == IF pcm < 0 THEN Wrap16(-pcm) ELSE pcm

\* pcm += 33: pcm after the bias step
Biased(pcm) == Wrap16(Magnitude(pcm) + 33)

\* a slip that forgets to set the sign bit
pcmToULaw_NoSign(pcm) ==
    LET sign     == pcm < 0
        mag      == IF sign THEN Wrap16(-pcm) ELSE pcm
        biased   == Wrap16(mag + 33)
        found    == SegmentLoop(Shr(biased, 7), 0)
        segment  == IF found > 7 THEN 7 ELSE found
        quantization == Shr(biased, segment + 3) % 16
        ulaw     == Or8(ToByte(segment * 16), ToByte(quantization))
    IN  Not8(ulaw)

pcmToULaw(pcm) ==
    LET sign     == pcm < 0
        biased   == Biased(pcm)
        found    == SegmentLoop(Shr(biased, 7), 0)
        segment  == IF found > 7 THEN 7 ELSE found
        quantization == Shr(biased, segment + 3) % 16
        ulaw     == Or8(ToByte(segment * 16), ToByte(quantization))
        signed   == IF sign THEN Or8(ulaw, 128) ELSE ulaw
    IN  Not8(signed)

\* a slip that leaves the even-bit inversion out
pcmToALaw_NoToggle(pcm) ==
    LET sign     == pcm < 0
        biased   == Biased(pcm)
        found    == SegmentLoop(Shr(biased, 7), 0)
        segment  == IF found > 7 THEN 7 ELSE found
        quantization == Shr(biased, segment + 3) % 16
        alaw     == Or8(ToByte(segment * 16), ToByte(quantization))
    IN  IF sign THEN Or8(alaw, 128) ELSE alaw

pcmToALaw(pcm) ==
    LET sign     == pcm < 0
        biased   == Biased(pcm)
        found    == SegmentLoop(Shr(biased, 7), 0)
        segment  == IF found > 7 THEN 7 ELSE found
        quantization == Shr(biased, segment + 3) % 16
        alaw     == Or8(ToByte(segment * 16), ToByte(quantization))
        signed   == IF sign THEN Or8(alaw, 128) ELSE alaw
    IN  Xor8(signed, 85)

\* a slip that writes the high byte first
slinBytes_BigEndian(sample) ==
    << ToByte(Shr(sample, 8) % 256), ToByte(sample % 256) >>

\* []byte{byte(sample & 0xFF), byte((sample >> 8) & 0xFF)}
slinBytes(sample) ==
    << ToByte(sample % 256), ToByte(Shr(sample, 8) % 256) >>

(***************************************************************************)
(* Formats and errors.  An error is its wrap chain, outermost message      *)
(* first; a sentinel is named by its variable, an anonymous fmt.Errorf by  *)
(* its message.  errors.Is walks the chain.                                *)
(***************************************************************************)
FormatG729 == "g729"
FormatULaw == "ulaw"
FormatALaw == "alaw"
FormatSLIN == "slin"

ErrInvalidFormat     == << "ErrInvalidFormat" >>
ErrUnsupportedFormat == << "ErrUnsupportedFormat" >>
ErrInvalidInput      == << "ErrInvalidInput" >>
ErrInvalidOutput     == << "ErrInvalidOutput" >>
ErrCodecNotAvailable == << "ErrCodecNotAvailable" >>

NoErr == << >>

\* fmt.Errorf("msg: %w", err)
Wrapf(msg, err) == << msg >> \o err

\* fmt.Errorf("msg") and errors of the operating system
Errorf(msg) == << msg >>

ErrorsIs(err, target) == \E i \in 1 .. Len(err) : err[i] = target[1]

\* a slip that leaves one format out of the validator
IsValidFormat_NoSLIN(format) == format \in {FormatG729, FormatULaw, FormatALaw}

\* a validator that lets every value through
IsValidFormat_AcceptsAll(format) == format = format

IsValidFormat(format) ==
    format \in {FormatG729, FormatULaw, FormatALaw, FormatSLIN}

GetSupportedFormats == << FormatG729, FormatULaw, FormatALaw, FormatSLIN >>

(***************************************************************************)
(* Byte sinks.  A sink accepts `budget` more writes and then fails every   *)
(* write; NeverFails is a sink that accepts all of them.                   *)
(***************************************************************************)
NeverFails == -1

NewSink(budget) == [data |-> << >>, budget |-> budget]

\* writer.Write(p): the outcome and the sink after it
Write(sink, p) ==
    IF sink.budget = 0
    THEN [sink |-> sink, err |-> Errorf("write failed")]
    ELSE [sink |-> [data   |-> sink.data \o p,
                    budget |-> IF sink.budget = NeverFails
                               THEN NeverFails ELSE sink.budget - 1],
          err  |-> NoErr]

(***************************************************************************)
(* The format encoders.                                                    *)
(***************************************************************************)
Nil == [type |-> "nil"]

ULawEncoder == [type |-> "ULawEncoder"]
ALawEncoder == [type |-> "ALawEncoder"]
SLINEncoder == [type |-> "SLINEncoder"]
\* the encoder field is the native handle, 0 for a nil pointer
G729Encoder(handle) == [type |-> "G729Encoder", encoder |-> handle]

\* a loop bound that is off by one and leaves the last sample out
RECURSIVE ULawEncoderEncode_DropLast(_, _)
ULawEncoderEncode_DropLast(samples, sink) ==
    IF Len(samples) <= 1 THEN [sink |-> sink, err |-> NoErr]
    ELSE LET w == Write(sink, << pcmToULaw(Head(samples)) >>)
         IN  IF w.err # NoErr THEN w
             ELSE ULawEncoderEncode_DropLast(Tail(samples), w.sink)

RECURSIVE ULawEncoderEncode(_, _)
ULawEncoderEncode(samples, sink) ==
    IF samples = << >> THEN [sink |-> sink, err |-> NoErr]
    ELSE LET w == Write(sink, << pcmToULaw(Head(samples)) >>)
         IN  IF w.err # NoErr THEN w
             ELSE ULawEncoderEncode(Tail(samples), w.sink)

\* a loop that leaves at a failed write and returns nil
RECURSIVE ALawEncoderEncode_DropsError(_, _)
ALawEncoderEncode_DropsError(samples, sink) ==
    IF samples = << >> THEN [sink |-> sink, err |-> NoErr]
    ELSE LET w == Write(sink, << pcmToALaw(Head(samples)) >>)
         IN  IF w.err # NoErr THEN [sink |-> w.sink, err |-> NoErr]
             ELSE ALawEncoderEncode_DropsError(Tail(samples), w.sink)

RECURSIVE ALawEncoderEncode(_, _)
ALawEncoderEncode(samples, sink) ==
    IF samples = << >> THEN [sink |-> sink, err |-> NoErr]
    ELSE LET w == Write(sink, << pcmToALaw(Head(samples)) >>)
         IN  IF w.err # NoErr THEN w
             ELSE ALawEncoderEncode(Tail(samples), w.sink)

RECURSIVE SLINEncoderEncode(_, _)
SLINEncoderEncode(samples, sink) ==
    IF samples = << >> THEN [sink |-> sink, err |-> NoErr]
    ELSE LET w == Write(sink, slinBytes(Head(samples)))
         IN  IF w.err # NoErr THEN w
             ELSE SLINEncoderEncode(Tail(samples), w.sink)

\* samples per G.729 frame
frameSize == 80

\* a frame cut from the samples without the zero padding
Frame_Unpadded(samples, i) ==
    [k \in 1 .. (IF Len(samples) - i < frameSize
                 THEN Len(samples) - i ELSE frameSize) |-> samples[i + k]]

\* frame := make([]int16, frameSize); copy(frame, samples[i:])
Frame(samples, i) ==
    [k \in 1 .. frameSize |->
        IF i + k <= Len(samples) THEN samples[i + k] ELSE 0]

\* the native codec: bitStreamLength bytes of compressed data for one frame,
\* bytes that depend on the frame
bcg729Encoder(frame, bitStreamLength) ==
    [k \in 1 .. bitStreamLength |-> (frame[1] + k) % 256]

\* the loop of G729Encoder.Encode from sample offset i on
RECURSIVE G729Loop(_, _, _, _)
G729Loop(samples, i, sink, bitStreamLength) ==
    IF i >= Len(samples) THEN [sink |-> sink, err |-> NoErr]
    ELSE LET encodedData == bcg729Encoder(Frame(samples, i), bitStreamLength)
         IN  IF bitStreamLength > 0
             THEN LET w == Write(sink, encodedData)
                  IN  IF w.err # NoErr
                      THEN [sink |-> w.sink,
                            err  |-> Wrapf("failed to write G.729 data", w.err)]
                      ELSE G729Loop(samples, i + frameSize, w.sink, bitStreamLength)
             ELSE G729Loop(samples, i + frameSize, sink, bitStreamLength)

\* a loop that writes the whole 10-byte output buffer whatever length the
\* codec reports
RECURSIVE G729LoopTraced_WholeBuffer(_, _, _, _, _)
G729LoopTraced_WholeBuffer(samples, i, sink, lens, trace) ==
    IF i >= Len(samples)
    THEN [sink |-> sink, err |-> NoErr, frames |-> trace.frames,
          writes |-> trace.writes]
    ELSE LET frame  == Frame(samples, i)
             output == bcg729Encoder(frame, 10)
             w      == Write(sink, output)
             t      == [frames |-> Append(trace.frames, frame),
                        writes |-> Append(trace.writes, output)]
         IN  IF w.err # NoErr
             THEN [sink |-> w.sink, frames |-> t.frames, writes |-> t.writes,
                   err  |-> Wrapf("failed to write G.729 data", w.err)]
             ELSE G729LoopTraced_WholeBuffer(samples, i + frameSize, w.sink,
                                             lens, t)

\* the loop of G729Encoder.Encode with the codec reporting lens[k] valid
\* bytes for the k-th frame it is given; trace keeps the frames handed to
\* the codec and the slices handed to writer.Write
RECURSIVE G729LoopTraced(_, _, _, _, _)
G729LoopTraced(samples, i, sink, lens, trace) ==
    IF i >= Len(samples)
    THEN [sink |-> sink, err |-> NoErr, frames |-> trace.frames,
          writes |-> trace.writes]
    ELSE LET frame  == Frame(samples, i)
             n      == lens[Len(trace.frames) + 1]
             encodedData == bcg729Encoder(frame, n)
             fs     == Append(trace.frames, frame)
         IN  IF n > 0
             THEN LET w == Write(sink, encodedData)
                      t == [frames |-> fs,
                            writes |-> Append(trace.writes, encodedData)]
                  IN  IF w.err # NoErr
                      THEN [sink |-> w.sink, frames |-> t.frames,
                            writes |-> t.writes,
                            err  |-> Wrapf("failed to write G.729 data", w.err)]
                      ELSE G729LoopTraced(samples, i + frameSize, w.sink, lens, t)
             ELSE G729LoopTraced(samples, i + frameSize, sink, lens,
                                 [frames |-> fs, writes |-> trace.writes])

G729EncoderEncode(e, samples, sink, bitStreamLength) ==
    IF e.encoder = 0
    THEN [sink |-> sink, err |-> Errorf("encoder not initialized")]
    ELSE G729Loop(samples, 0, sink, bitStreamLength)

\* Encode without the check of the handle
G729EncoderEncodeTraced_NoNilCheck(e, samples, sink, lens) ==
    G729LoopTraced(samples, 0, sink, lens,
                   [frames |-> << >>, writes |-> << >>])

\* G729Encoder.Encode with the frames and writes traced
G729EncoderEncodeTraced(e, samples, sink, lens) ==
    IF e.encoder = 0
    THEN [sink |-> sink, err |-> Errorf("encoder not initialized"),
          frames |-> << >>, writes |-> << >>]
    ELSE G729LoopTraced(samples, 0, sink, lens,
                        [frames |-> << >>, writes |-> << >>])

\* encoder.Encode(samples, writer) through the CodecEncoder interface
Encode(e, samples, sink, bitStreamLength) ==
    CASE e.type = "ULawEncoder" -> ULawEncoderEncode(samples, sink)
      [] e.type = "ALawEncoder" -> ALawEncoderEncode(samples, sink)
      [] e.type = "SLINEncoder" -> SLINEncoderEncode(samples, sink)
      [] e.type = "G729Encoder" ->
            G729EncoderEncode(e, samples, sink, bitStreamLength)

GetFormat(e) ==
    CASE e.type = "ULawEncoder" -> FormatULaw
      [] e.type = "ALawEncoder" -> FormatALaw
      [] e.type = "SLINEncoder" -> FormatSLIN
      [] e.type = "G729Encoder" -> FormatG729

\* kbps
GetBitrate(e) ==
    CASE e.type = "ULawEncoder" -> 64
      [] e.type = "ALawEncoder" -> 64
      [] e.type = "SLINEncoder" -> 128
      [] e.type = "G729Encoder" -> 8

(***************************************************************************)
(* The codec registry.  cgo tells which of the two build variants of       *)
(* NewG729Encoder is compiled in; initOk whether the native library hands  *)
(* out an encoder channel; handle is the handle it would hand out.         *)
(***************************************************************************)
NewG729Encoder(cgo, initOk, handle) ==
    IF ~cgo
    THEN [encoder |-> Nil,
          err |-> Errorf("G.729 encoding requires CGO and libbcg729 library")]
    ELSE IF ~initOk
    THEN [encoder |-> Nil, err |-> Errorf("failed to initialize G.729 encoder")]
    ELSE [encoder |-> G729Encoder(handle), err |-> NoErr]

\* a slip that returns the A-law encoder for mu-law
GetEncoder_WrongCase(format, cgo, initOk, handle) ==
    CASE format = FormatG729 ->
            LET r == NewG729Encoder(cgo, initOk, handle)
            IN  IF r.err # NoErr
                THEN [encoder |-> Nil,
                      err |-> Wrapf("G.729 encoder not available", r.err)]
                ELSE r
      [] format = FormatULaw -> [encoder |-> ALawEncoder, err |-> NoErr]
      [] format = FormatALaw -> [encoder |-> ALawEncoder, err |-> NoErr]
      [] format = FormatSLIN -> [encoder |-> SLINEncoder, err |-> NoErr]
      [] OTHER -> [encoder |-> Nil, err |-> ErrUnsupportedFormat]

\* a registry that probes the G.729 codec before it looks at the format
GetEncoder_G729First(format, cgo, initOk, handle) ==
    LET r == NewG729Encoder(cgo, initOk, handle)
    IN  IF r.err # NoErr
        THEN [encoder |-> Nil,
              err |-> Wrapf("G.729 encoder not available", r.err)]
        ELSE CASE format = FormatG729 -> r
               [] format = FormatULaw -> [encoder |-> ULawEncoder, err |-> NoErr]
               [] format = FormatALaw -> [encoder |-> ALawEncoder, err |-> NoErr]
               [] format = FormatSLIN -> [encoder |-> SLINEncoder, err |-> NoErr]
               [] OTHER -> [encoder |-> Nil, err |-> ErrUnsupportedFormat]

GetEncoder(format, cgo, initOk, handle) ==
    CASE format = FormatG729 ->
            LET r == NewG729Encoder(cgo, initOk, handle)
            IN  IF r.err # NoErr
                THEN [encoder |-> Nil,
                      err |-> Wrapf("G.729 encoder not available", r.err)]
                ELSE r
      [] format = FormatULaw -> [encoder |-> ULawEncoder, err |-> NoErr]
      [] format = FormatALaw -> [encoder |-> ALawEncoder, err |-> NoErr]
      [] format = FormatSLIN -> [encoder |-> SLINEncoder, err |-> NoErr]
      [] OTHER -> [encoder |-> Nil, err |-> ErrUnsupportedFormat]

(***************************************************************************)
(* State.                                                                  *)
(***************************************************************************)
VARIABLES
    \* the build and the native library
    cgo,            \* TRUE when the cgo variant of the G.729 codec is compiled in
    initOk,         \* TRUE when initBcg729EncoderChannel returns a channel
    bitStreamLength,\* the number of valid bytes the codec reports per frame
    opened,         \* native handles handed out so far: 1 .. opened
    closed,         \* the handles passed to closeBcg729EncoderChannel, in order
    \* one int16 put through the per-sample transforms
    sample, ulaw, alaw, slin,
    succ,           \* the transforms of the next larger sample
    \* one encoder taken from the registry and driven directly
    reqFormat,      \* the format value asked for
    isValid,        \* what IsValidFormat answered, once asked
    enc, encErr,    \* what GetEncoder returned
    a, b,           \* two sample sequences
    sinkSplit,      \* receives Encode(a) and then Encode(b)
    sinkJoint,      \* receives Encode(a ++ b)
    calls,          \* how many calls of each kind were made
    encodeErr,      \* the error of the last Encode on each sink
    \* the file system and the caller's reader and writer
    inFile,         \* the file at the input path (and behind the reader)
    readerIsFile,   \* TRUE when the reader handed in is an *os.File
    outCreatable,   \* TRUE when os.Create of the output path succeeds
    outFile,        \* the file at the output path
    outSink,        \* what the call encodes into: the io.Writer handed to
                    \* TranscodeToWriter, or the output file once opened
    closeOk,        \* TRUE when Close of the output file succeeds
    outHandle,      \* the call's handle on the output file
    \* one transcode call
    entry,          \* the entry point called
    format,         \* the format asked for
    pc,             \* the step the call is at
    encoder,        \* the encoder the call holds
    samples, fileInfo, \* what the call's ReadWAVSamples returned
    err, result,    \* what the call returned
    ioLog,          \* the file, reader, writer and codec operations of the call
    failures,       \* those of them that failed
    \* several transcode calls on one transcoder
    transcoder,     \* the DefaultTranscoder the calls are made on
    inv,            \* the calls, each with its own locals, input and output
    \* one G.729 encoder driven frame by frame
    g729,
    \* one G.729 decoder, its reader and its writer
    dec

buildVars  == << cgo, initOk, bitStreamLength >>
nativeVars == << opened, closed >>
sampleVars == << sample, ulaw, alaw, slin, succ >>
codecVars  == << reqFormat, isValid, enc, encErr, a, b,
                 sinkSplit, sinkJoint, calls, encodeErr >>

fsVars     == << inFile, readerIsFile, outCreatable, outFile, outSink,
                 closeOk, outHandle >>
callVars   == << entry, format, pc, encoder, samples, fileInfo, err, result,
                 ioLog, failures >>
invVars    == << transcoder, inv >>
g729Vars   == << g729, dec >>

vars == << buildVars, nativeVars, sampleVars, codecVars, fsVars, callVars,
           invVars, g729Vars >>

NotCalled == << >>

\* values of the variables a specification does not use
BuildIdle  == cgo = FALSE /\ initOk = FALSE /\ bitStreamLength = 0
NativeInit == opened = 0 /\ closed = << >>
SampleIdle ==
    /\ sample = 0 /\ ulaw = NotCalled /\ alaw = NotCalled /\ slin = NotCalled
    /\ succ = NotCalled
CodecIdle  ==
    /\ reqFormat = "" /\ isValid = NotCalled /\ enc = Nil /\ encErr = NoErr
    /\ a = << >> /\ b = << >>
    /\ sinkSplit = NewSink(NeverFails) /\ sinkJoint = NewSink(NeverFails)
    /\ calls = [get |-> 0, split |-> 0, joint |-> 0]
    /\ encodeErr = [split |-> NoErr, joint |-> NoErr]

NilInfo == [Type |-> "nil"]
NoFile  == [exists |-> FALSE]
NoResult == << >>
FsIdle ==
    /\ inFile = NoFile /\ readerIsFile = FALSE /\ outCreatable = FALSE
    /\ outFile = [exists |-> FALSE, data |-> << >>]
    /\ outSink = NewSink(NeverFails)
    /\ closeOk = FALSE /\ outHandle = "none"
CallIdle ==
    /\ entry = "" /\ format = "" /\ pc = "" /\ encoder = Nil
    /\ samples = << >> /\ fileInfo = NilInfo /\ err = NoErr
    /\ result = NoResult /\ ioLog = << >> /\ failures = << >>
\* NewTranscoder(false)
NewTranscoder(verbose) == [verbose |-> verbose]
InvIdle  == transcoder = NewTranscoder(FALSE) /\ inv = << >>
DecoderIdle == dec = [pc |-> ""]
G729Idle == g729 = [pc |-> ""] /\ DecoderIdle

\* the sequences over S of length at most n
SeqsUpTo(S, n) == UNION {[1 .. k -> S] : k \in 0 .. n}

\* the builds and native libraries a program can meet
Builds ==
    {bd \in [cgo : BOOLEAN, initOk : BOOLEAN, bitStreamLength : {0, 2, 10}] :
        /\ ~bd.cgo => ~bd.initOk
        /\ ~bd.initOk => bd.bitStreamLength = 0}

(***************************************************************************)
(* SpecCompand: every int16 through pcmToULaw, pcmToALaw and the SLIN      *)
(* encoder, the sample and its negation side by side as in the tests.      *)
(***************************************************************************)
InitCompand ==
    /\ BuildIdle /\ NativeInit /\ CodecIdle /\ FsIdle /\ CallIdle
    /\ InvIdle /\ G729Idle
    /\ sample \in Int16
    /\ ulaw = NotCalled /\ alaw = NotCalled /\ slin = NotCalled
    /\ succ = NotCalled

\* pos := pcmToULaw(s); neg := pcmToULaw(-s)
TestPcmToULaw ==
    /\ ulaw = NotCalled
    /\ ulaw' = << pcmToULaw(sample), pcmToULaw(Wrap16(-sample)) >>
    /\ UNCHANGED << sample, alaw, slin, succ, buildVars, nativeVars, codecVars,
                    invVars, g729Vars,
                    fsVars, callVars >>

\* pos := pcmToALaw(s); neg := pcmToALaw(-s)
TestPcmToALaw ==
    /\ alaw = NotCalled
    /\ alaw' = << pcmToALaw(sample), pcmToALaw(Wrap16(-sample)) >>
    /\ UNCHANGED << sample, ulaw, slin, succ, buildVars, nativeVars, codecVars,
                    invVars, g729Vars,
                    fsVars, callVars >>

\* encoder.Encode([]int16{s}, &buf) on a SLINEncoder
TestSLINEncoder ==
    /\ slin = NotCalled
    /\ slin' = SLINEncoderEncode(<< sample >>, NewSink(NeverFails)).sink.data
    /\ UNCHANGED << sample, ulaw, alaw, succ, buildVars, nativeVars, codecVars,
                    invVars, g729Vars,
                    fsVars, callVars >>

\* the two transforms of sample + 1, for a non-negative sample that has a
\* successor
TestSuccessor ==
    /\ succ = NotCalled
    /\ sample >= 0 /\ sample + 1 \in Int16
    /\ succ' = << pcmToULaw(sample + 1), pcmToALaw(sample + 1) >>
    /\ UNCHANGED << sample, ulaw, alaw, slin, buildVars, nativeVars, codecVars,
                    invVars, g729Vars, fsVars, callVars >>

NextCompand ==
    TestPcmToULaw \/ TestPcmToALaw \/ TestSLINEncoder \/ TestSuccessor

SpecCompand == InitCompand /\ [][NextCompand]_vars

(***************************************************************************)
(* Claims on the per-sample transforms (SpecCompand).                      *)
(***************************************************************************)
SignObservable(pair) == pair # NotCalled => pair[1] # pair[2]

\* C1 as stated: for every int16 s # 0, pcmToULaw(s) # pcmToULaw(-s) and
\* pcmToALaw(s) # pcmToALaw(-s), -s being the 16-bit negation.
C1_Original ==
    sample # 0 => SignObservable(ulaw) /\ SignObservable(alaw)

\* C1 amended: for every int16 s other than 0 and -32768 (whose 16-bit
\* negation is itself), pcmToULaw(s) # pcmToULaw(-s) and
\* pcmToALaw(s) # pcmToALaw(-s).
C1_SignObservable ==
    (sample # 0 /\ sample # -32768) =>
        SignObservable(ulaw) /\ SignObservable(alaw)

C1_Witness ==
    /\ sample = -32767
    /\ ulaw # NotCalled /\ alaw # NotCalled
    /\ ulaw[1] # ulaw[2] /\ alaw[1] # alaw[2]

\* C3: SLINEncoder emits for every int16 sample s two bytes, low byte first,
\* with low + 256 * high the 16-bit two's-complement representation of s;
\* 100 gives [0x64, 0x00] and 0 gives [0x00, 0x00].
C3_SLINLittleEndian ==
    slin # NotCalled =>
        /\ Len(slin) = 2
        /\ slin[1] \in 0 .. 255 /\ slin[2] \in 0 .. 255
        /\ slin[1] + 256 * slin[2] = (IF sample < 0 THEN sample + 65536 ELSE sample)
        /\ (sample = 100 => slin = << 100, 0 >>)
        /\ (sample = 0 => slin = << 0, 0 >>)

C3_Witness == sample = -100 /\ slin = << 156, 255 >>

\* the number of significant bits of a natural number
SignificantBits(x) ==
    IF x = 0 THEN 0 ELSE CHOOSE k \in 1 .. 17 : 2 ^ (k - 1) <= x /\ x < 2 ^ k

\* the mu-law byte of the specified steps on integers that do not wrap
SpecifiedULaw(s) ==
    LET m   == IF s < 0 THEN 0 - s ELSE s
        bb  == m + 33
        sb  == SignificantBits(bb \div 128)
        seg == IF sb > 7 THEN 7 ELSE sb
        q   == (bb \div (2 ^ (seg + 3))) % 16
    IN  255 - (seg * 16 + q + (IF s < 0 THEN 128 ELSE 0))

\* C21: for every int16 sample s, pcmToULaw(s) is the byte of the specified
\* steps carried out on integers that do not wrap: m = |s|, b = m + 33,
\* segment = min(7, significant bits of b >> 7), q = (b >> (segment + 3)) & 15,
\* result = 8-bit complement of (segment << 4 | q | 0x80 if s < 0).
C21_ULawAsSpecified ==
    ulaw # NotCalled => ulaw[1] = SpecifiedULaw(sample)

\* C22: no intermediate value of pcmToULaw or pcmToALaw wraps: for every
\* int16 input the magnitude after the negation step lies in 0 .. 32767 and
\* the biased magnitude is exactly that magnitude plus 33, a positive number.
C22_NoWrap ==
    (ulaw # NotCalled \/ alaw # NotCalled) =>
        /\ Magnitude(sample) \in 0 .. 32767
        /\ Biased(sample) = Magnitude(sample) + 33
        /\ Biased(sample) > 0

\* C23: for every int16 sample s, pcmToALaw(s) XOR 0x55 is the 8-bit
\* complement of pcmToULaw(s), that is pcmToALaw(s) = pcmToULaw(s) XOR 0xAA.
C23_ALawIsULawXorAA ==
    (ulaw # NotCalled /\ alaw # NotCalled) =>
        \A i \in 1 .. 2 :
            /\ Xor8(alaw[i], 85) = 255 - ulaw[i]
            /\ alaw[i] = Xor8(ulaw[i], 170)

C23_Witness ==
    /\ sample = -1000 /\ ulaw # NotCalled /\ alaw # NotCalled
    /\ alaw[1] = Xor8(ulaw[1], 170) /\ alaw[1] # ulaw[1]
    /\ alaw[2] = alaw[1] - 128

\* the 7-bit code (segment << 4) | quantization of a non-negative sample,
\* taken back from the byte returned
ULawCode(byte) == (255 - byte) % 128
ALawCode(byte) == Xor8(byte, 85) % 128

\* C28: the companding code is monotone in magnitude: for non-negative
\* int16 samples a <= b the 7-bit code (segment << 4) | quantization of a
\* is at most that of b, in pcmToULaw and in pcmToALaw (stated for b = a + 1,
\* which gives all pairs); segment is in 0 .. 7 and quantization in 0 .. 15.
C28_CodeMonotone ==
    (sample >= 0 /\ ulaw # NotCalled /\ alaw # NotCalled /\ succ # NotCalled) =>
        /\ ULawCode(ulaw[1]) <= ULawCode(succ[1])
        /\ ALawCode(alaw[1]) <= ALawCode(succ[2])
        /\ ULawCode(ulaw[1]) \div 16 \in 0 .. 7
        /\ ULawCode(ulaw[1]) % 16 \in 0 .. 15

(***************************************************************************)
(* SpecEncode: a caller asks the registry for an encoder and drives it:    *)
(* Encode(a) and Encode(b) into one sink, Encode(a ++ b) into another.     *)
(***************************************************************************)
\* format values a caller may pass: AudioFormat is a string type
FormatValues ==
    {FormatG729, FormatULaw, FormatALaw, FormatSLIN, "invalid", "mp3", ""}

\* sample values of the encoder tests
EncSamples == {100, -1000}

SinkBudgets == {NeverFails} \cup (0 .. MaxWrites)

\* a sample sequence that takes more than one G.729 frame, for the callers
\* that ask for g729
LongSamples == [i \in 1 .. frameSize + 1 |-> 100]

InitEncode ==
    /\ \E bd \in Builds :
          /\ cgo = bd.cgo /\ initOk = bd.initOk
          /\ bitStreamLength = bd.bitStreamLength
    /\ NativeInit /\ SampleIdle /\ FsIdle /\ CallIdle
    /\ InvIdle /\ G729Idle
    /\ reqFormat \in FormatValues
    /\ isValid = NotCalled
    /\ enc = Nil /\ encErr = NoErr
    /\ a \in SeqsUpTo(EncSamples, MaxLen)
             \cup (IF reqFormat = FormatG729 THEN {LongSamples} ELSE {})
    /\ b \in SeqsUpTo(EncSamples, MaxLen)
    /\ \E budget \in SinkBudgets :
          sinkSplit = NewSink(budget) /\ sinkJoint = NewSink(budget)
    /\ calls = [get |-> 0, split |-> 0, joint |-> 0]
    /\ encodeErr = [split |-> NoErr, joint |-> NoErr]

CallIsValidFormat ==
    /\ isValid = NotCalled
    /\ isValid' = << IsValidFormat(reqFormat) >>
    /\ UNCHANGED << reqFormat, enc, encErr, a, b, sinkSplit, sinkJoint, calls,
                    encodeErr, buildVars, nativeVars, sampleVars,
                    invVars, g729Vars,
                    fsVars, callVars >>

CallGetEncoder ==
    /\ calls.get = 0
    /\ LET r == GetEncoder(reqFormat, cgo, initOk, opened + 1)
       IN  /\ enc' = r.encoder
           /\ encErr' = r.err
           /\ opened' = IF r.encoder.type = "G729Encoder"
                        THEN opened + 1 ELSE opened
    /\ calls' = [calls EXCEPT !.get = 1]
    /\ UNCHANGED << reqFormat, isValid, a, b, sinkSplit, sinkJoint, encodeErr,
                    closed, buildVars, sampleVars, fsVars, callVars,
                    invVars, g729Vars >>

\* encoder.Encode(a, w) and, when it succeeded, encoder.Encode(b, w)
CallEncodeSplit ==
    /\ enc # Nil
    /\ calls.split < 2
    /\ encodeErr.split = NoErr
    /\ LET r == Encode(enc, IF calls.split = 0 THEN a ELSE b, sinkSplit,
                       bitStreamLength)
       IN  /\ sinkSplit' = r.sink
           /\ encodeErr' = [encodeErr EXCEPT !.split = r.err]
    /\ calls' = [calls EXCEPT !.split = @ + 1]
    /\ UNCHANGED << reqFormat, isValid, enc, encErr, a, b, sinkJoint,
                    invVars, g729Vars, buildVars, nativeVars, sampleVars,
                    fsVars, callVars >>

\* encoder.Encode(append(a, b...), w)
CallEncodeJoint ==
    /\ enc # Nil
    /\ calls.joint = 0
    /\ LET r == Encode(enc, a \o b, sinkJoint, bitStreamLength)
       IN  /\ sinkJoint' = r.sink
           /\ encodeErr' = [encodeErr EXCEPT !.joint = r.err]
    /\ calls' = [calls EXCEPT !.joint = 1]
    /\ UNCHANGED << reqFormat, isValid, enc, encErr, a, b, sinkSplit,
                    invVars, g729Vars, buildVars, nativeVars, sampleVars,
                    fsVars, callVars >>

NextEncode ==
    CallIsValidFormat \/ CallGetEncoder \/ CallEncodeSplit \/ CallEncodeJoint

SpecEncode == InitEncode /\ [][NextEncode]_vars

(***************************************************************************)
(* Claims on the encoders and the registry (SpecEncode).                   *)
(***************************************************************************)
\* the in-order concatenation of the per-sample transform
ULawBytes(ss) == [i \in 1 .. Len(ss) |-> pcmToULaw(ss[i])]
ALawBytes(ss) == [i \in 1 .. Len(ss) |-> pcmToALaw(ss[i])]
SLINBytes(ss) ==
    [i \in 1 .. 2 * Len(ss) |->
        slinBytes(ss[(i + 1) \div 2])[IF i % 2 = 1 THEN 1 ELSE 2]]

PerSampleBytes(e, ss) ==
    CASE e.type = "ULawEncoder" -> ULawBytes(ss)
      [] e.type = "ALawEncoder" -> ALawBytes(ss)
      [] e.type = "SLINEncoder" -> SLINBytes(ss)

BytesPerSample(e) == IF e.type = "SLINEncoder" THEN 2 ELSE 1

Companding(e) == e.type \in {"ULawEncoder", "ALawEncoder", "SLINEncoder"}

\* C2: on a sink that never fails, ULawEncoder, ALawEncoder and SLINEncoder
\* write exactly the in-order concatenation of the per-sample transform:
\* Encode(a) then Encode(b) leaves what Encode(a ++ b) leaves, N samples give
\* N bytes (2N for SLIN), N = 0 included, and no call fails.
C2_EncodeConcatenates ==
    (Companding(enc) /\ sinkSplit.budget = NeverFails) =>
        /\ encodeErr.split = NoErr /\ encodeErr.joint = NoErr
        /\ calls.split = 1 => sinkSplit.data = PerSampleBytes(enc, a)
        /\ calls.split = 2 =>
              /\ sinkSplit.data = PerSampleBytes(enc, a) \o PerSampleBytes(enc, b)
              /\ sinkSplit.data = PerSampleBytes(enc, a \o b)
        /\ calls.joint = 1 =>
              /\ sinkJoint.data = PerSampleBytes(enc, a \o b)
              /\ Len(sinkJoint.data) = BytesPerSample(enc) * (Len(a) + Len(b))
        /\ (calls.split = 2 /\ calls.joint = 1) => sinkSplit.data = sinkJoint.data

C2_Witness ==
    /\ enc = SLINEncoder /\ sinkSplit.budget = NeverFails
    /\ Len(a) = MaxLen /\ Len(b) = 1 /\ a[1] # a[2]
    /\ calls.split = 2 /\ calls.joint = 1
    /\ Len(sinkJoint.data) = 2 * (MaxLen + 1)

\* C4: GetEncoder for ulaw, alaw and slin returns no error and a non-nil
\* encoder whose GetFormat is the requested format and whose GetBitrate is
\* the format's nominal constant (64, 64, 128 kbps; a G.729 encoder reports
\* 8), before and after any samples are encoded.
C4_GetEncoderCompanding ==
    calls.get = 1 =>
        /\ reqFormat \in {FormatULaw, FormatALaw, FormatSLIN} =>
              /\ encErr = NoErr /\ enc # Nil
              /\ GetFormat(enc) = reqFormat
              /\ GetBitrate(enc) =
                    (IF reqFormat = FormatSLIN THEN 128 ELSE 64)
        /\ enc.type = "G729Encoder" =>
              GetFormat(enc) = FormatG729 /\ GetBitrate(enc) = 8

C4_Witness ==
    /\ reqFormat = FormatULaw /\ enc = ULawEncoder
    /\ calls = [get |-> 1, split |-> 2, joint |-> 1]
    /\ Len(sinkJoint.data) > 0

\* C5: GetEncoder(f) fails with ErrUnsupportedFormat for exactly the values
\* f that IsValidFormat rejects, which are the values other than g729, ulaw,
\* alaw and slin ("invalid", "mp3" and "" among them).
C5_UnsupportedIffInvalid ==
    /\ isValid # NotCalled =>
          (isValid[1] <=>
             reqFormat \in {FormatG729, FormatULaw, FormatALaw, FormatSLIN})
    /\ (calls.get = 1 /\ isValid # NotCalled) =>
          /\ ErrorsIs(encErr, ErrUnsupportedFormat) <=> ~isValid[1]
          /\ ~isValid[1] => (encErr = ErrUnsupportedFormat /\ enc = Nil)

C5_Witness ==
    /\ reqFormat = "mp3" /\ calls.get = 1 /\ isValid = << FALSE >>
    /\ encErr = ErrUnsupportedFormat

\* C6: without native G.729 support, or when the native encoder fails to
\* initialise, GetEncoder(g729) returns an error with ErrCodecNotAvailable
\* in its wrap chain, and neither ErrInvalidInput nor ErrUnsupportedFormat.
C6_CodecNotAvailableTyped ==
    (calls.get = 1 /\ reqFormat = FormatG729 /\ (~cgo \/ ~initOk)) =>
        /\ ErrorsIs(encErr, ErrCodecNotAvailable)
        /\ ~ErrorsIs(encErr, ErrInvalidInput)
        /\ ~ErrorsIs(encErr, ErrUnsupportedFormat)

\* the Write calls Encode(e, ss, w) makes on a sink that takes them all, and
\* those the sink took, told from the bytes it holds
WritesNeeded(e, ss) ==
    IF Companding(e) THEN Len(ss)
    ELSE IF bitStreamLength > 0
         THEN (Len(ss) + frameSize - 1) \div frameSize ELSE 0

WritesTaken(e, sink) ==
    IF Companding(e) THEN Len(sink.data) \div BytesPerSample(e)
    ELSE IF bitStreamLength > 0
         THEN Len(sink.data) \div bitStreamLength ELSE 0

\* the first n samples (companding encoders) or frames (G.729) of ss
Preceding(e, ss, n) ==
    LET m == IF Companding(e) THEN n ELSE n * frameSize
    IN  SubSeq(ss, 1, IF m < Len(ss) THEN m ELSE Len(ss))

\* C13: when a Write of the sink fails during Encode of any of the four
\* encoders, Encode returns an error that carries the sink's error, and the
\* sink holds exactly the encoding of the samples (for G.729 the frames)
\* before the failing write: nothing later is written, nothing written is
\* taken back.  Encode fails exactly when the sink refuses one of its writes.
C13_StopsAtFailedWrite ==
    (calls.joint = 1 /\ sinkJoint.budget # NeverFails) =>
        LET ss     == a \o b
            taken  == WritesTaken(enc, sinkJoint)
            budget == sinkJoint.budget + taken
        IN  /\ encodeErr.joint # NoErr <=> budget < WritesNeeded(enc, ss)
            /\ encodeErr.joint # NoErr =>
                  /\ ErrorsIs(encodeErr.joint, Errorf("write failed"))
                  /\ Companding(enc) => encodeErr.joint = Errorf("write failed")
                  /\ taken = budget
            /\ sinkJoint.data =
                  Encode(enc, Preceding(enc, ss, taken), NewSink(NeverFails),
                         bitStreamLength).sink.data
            /\ Companding(enc) =>
                  sinkJoint.data = PerSampleBytes(enc, Preceding(enc, ss, taken))

C13_Witness ==
    /\ enc.type = "G729Encoder" /\ bitStreamLength = 10
    /\ a = LongSamples /\ b = << >>
    /\ calls.joint = 1
    /\ sinkJoint = [data |-> bcg729Encoder(LongSamples, 10), budget |-> 0]
    /\ encodeErr.joint = << "failed to write G.729 data", "write failed" >>

\* C18: GetSupportedFormats lists the formats available in the build, ulaw,
\* alaw and slin without native G.729 and all four with it, and GetEncoder
\* returns an encoder and no error for every format it lists (the native
\* library, where there is one, handing out its channel).
C18_SupportedAreObtainable ==
    /\ GetSupportedFormats =
          (IF cgo THEN << FormatG729, FormatULaw, FormatALaw, FormatSLIN >>
           ELSE << FormatULaw, FormatALaw, FormatSLIN >>)
    /\ (/\ calls.get = 1 /\ (cgo => initOk)
        /\ \E i \in 1 .. Len(GetSupportedFormats) :
              GetSupportedFormats[i] = reqFormat)
       => (encErr = NoErr /\ enc # Nil)

(***************************************************************************)
(* The WAV reader and the transcoding orchestrator.                        *)
(***************************************************************************)
\* the WAV files a caller may supply: the four header fields the reader
\* checks, the PCM frames, and the size os.Stat reports (a 44-byte RIFF
\* header and the data chunk)
Headers ==
    [AudioFormat : {1, 3}, NumChannels : {1, 2},
     SampleRate : {8000, 44100}, BitsPerSample : {16, 8}]

WavSamples == {100, -1000}

WavFile(h, ss, formatOk) ==
    [exists |-> TRUE, formatOk |-> formatOk, hdr |-> h, samples |-> ss,
     size |-> 44 + (Len(ss) * h.NumChannels * h.BitsPerSample) \div 8]

ValidHeader ==
    [AudioFormat |-> 1, NumChannels |-> 1, SampleRate |-> 8000,
     BitsPerSample |-> 16]

InputFiles ==
    {WavFile(h, ss, TRUE) : h \in Headers, ss \in SeqsUpTo(WavSamples, MaxSamples)}
    \cup {WavFile(ValidHeader, << >>, FALSE), NoFile}

\* a reader that forgets the channel check
ReadWAVSamples_NoChannelCheck(rd) ==
    LET fail(e) == [samples |-> << >>, fileInfo |-> NilInfo, err |-> e]
        f == rd.file
    IN  IF ~rd.isFile
        THEN fail(Errorf("reader must be *os.File for youpy/go-wav"))
        ELSE IF ~f.formatOk THEN fail(Errorf("wav: invalid format chunk"))
        ELSE IF f.hdr.AudioFormat # 1 THEN fail(ErrInvalidFormat)
        ELSE IF f.hdr.SampleRate # 8000 THEN fail(ErrInvalidFormat)
        ELSE IF f.hdr.BitsPerSample # 16 THEN fail(ErrInvalidFormat)
        ELSE [samples  |-> f.samples,
              fileInfo |-> [Type         |-> "WAVE",
                            Path         |-> "",
                            BitDepth     |-> f.hdr.BitsPerSample,
                            SampleRate   |-> f.hdr.SampleRate,
                            Channels     |-> f.hdr.NumChannels,
                            TotalSamples |-> Len(f.samples),
                            Duration     |-> << Len(f.samples), f.hdr.SampleRate >>,
                            Size         |-> 0],
              err      |-> NoErr]

\* ReadWAVSamples(reader): rd.isFile tells whether reader is an *os.File,
\* rd.file is the WAV it delivers
ReadWAVSamples(rd) ==
    LET fail(e) == [samples |-> << >>, fileInfo |-> NilInfo, err |-> e]
        f == rd.file
    IN  IF ~rd.isFile
        THEN fail(Errorf("reader must be *os.File for youpy/go-wav"))
        ELSE IF ~f.formatOk THEN fail(Errorf("wav: invalid format chunk"))
        ELSE IF f.hdr.AudioFormat # 1 THEN fail(ErrInvalidFormat)
        ELSE IF f.hdr.NumChannels # 1 THEN fail(ErrInvalidFormat)
        ELSE IF f.hdr.SampleRate # 8000 THEN fail(ErrInvalidFormat)
        ELSE IF f.hdr.BitsPerSample # 16 THEN fail(ErrInvalidFormat)
        ELSE [samples  |-> f.samples,
              fileInfo |-> [Type         |-> "WAVE",
                            Path         |-> "",
                            BitDepth     |-> f.hdr.BitsPerSample,
                            SampleRate   |-> f.hdr.SampleRate,
                            Channels     |-> f.hdr.NumChannels,
                            TotalSamples |-> Len(f.samples),
                            Duration     |-> << Len(f.samples), f.hdr.SampleRate >>,
                            Size         |-> 0],
              err      |-> NoErr]

\* DefaultTranscoder.ValidateInput(inputPath), f the file at inputPath
ValidateInput(f) ==
    IF ~f.exists
    THEN [fileInfo |-> NilInfo,
          err |-> Wrapf("file not found", Errorf("no such file or directory"))]
    ELSE LET r == ReadWAVSamples([isFile |-> TRUE, file |-> f])
         IN  IF r.err # NoErr
             THEN [fileInfo |-> NilInfo, err |-> Wrapf("invalid WAV file", r.err)]
             ELSE [fileInfo |-> [r.fileInfo EXCEPT !.Size = f.size,
                                                   !.Path = "input"],
                   err |-> NoErr]

\* the operations ReadWAVSamples performs on its reader: none when the type
\* assertion fails, else the format chunk and, when it parses, the samples
ReadWAVSamplesIO(rd) == IF rd.isFile THEN << "read input" >> ELSE << >>

\* the operations of ValidateInput: os.Stat, os.Open, ReadWAVSamples
ValidateInputIO(f) ==
    IF ~f.exists THEN << "stat input" >>
    ELSE << "stat input", "open input" >>
         \o ReadWAVSamplesIO([isFile |-> TRUE, file |-> f])

Entries == {"Transcode", "TranscodeFromReader", "TranscodeToWriter"}

\* the steps of each entry point, in the order of its code
Steps(e) ==
    CASE e = "Transcode" ->
            << "ValidateFormat", "ValidateInput", "CreateOutput", "GetEncoder",
               "OpenInput", "ReadWAVSamples", "Encode", "Finalize" >>
      [] e = "TranscodeFromReader" ->
            << "ValidateFormat", "GetEncoder", "ReadWAVSamples", "CreateOutput",
               "Encode", "Finalize" >>
      [] e = "TranscodeToWriter" ->
            << "ValidateFormat", "ValidateInput", "GetEncoder", "OpenInput",
               "ReadWAVSamples", "Encode", "Finalize" >>

\* the step after step s of entry point e
After(e, s) ==
    LET i == CHOOSE k \in 1 .. Len(Steps(e)) : Steps(e)[k] = s
    IN  IF i = Len(Steps(e)) THEN "Completed" ELSE Steps(e)[i + 1]

ToFile(e) == e \in {"Transcode", "TranscodeFromReader"}

\* return nil, e
Fail(e) == pc' = "Failed" /\ err' = e

\* formats a caller asks a transcode for
TranscodeFormats == {FormatG729, FormatULaw, FormatALaw, FormatSLIN, "mp3"}

Init ==
    /\ \E bd \in Builds :
          /\ cgo = bd.cgo /\ initOk = bd.initOk
          /\ bitStreamLength = bd.bitStreamLength
    /\ NativeInit /\ SampleIdle /\ CodecIdle
    /\ InvIdle /\ G729Idle
    /\ entry \in Entries
    /\ format \in TranscodeFormats
    /\ inFile \in InputFiles
    /\ readerIsFile \in BOOLEAN
    /\ entry # "TranscodeFromReader" => readerIsFile
    /\ entry = "TranscodeFromReader" => inFile.exists
    /\ outCreatable \in BOOLEAN
    /\ outFile \in {[exists |-> FALSE, data |-> << >>],
                    [exists |-> TRUE, data |-> << 1 >>]}
    /\ ~ToFile(entry) => (outCreatable /\ ~outFile.exists)
    /\ \E budget \in SinkBudgets : outSink = NewSink(budget)
    /\ pc = "ValidateFormat"
    /\ encoder = Nil /\ samples = << >> /\ fileInfo = NilInfo
    /\ err = NoErr /\ result = NoResult /\ ioLog = << >> /\ failures = << >>
    /\ closeOk \in BOOLEAN /\ outHandle = "none"
    /\ ~ToFile(entry) => closeOk

\* if !IsValidFormat(format) { return nil, ErrUnsupportedFormat }
StepValidateFormat ==
    /\ pc = "ValidateFormat"
    /\ IF ~IsValidFormat(format)
       THEN Fail(ErrUnsupportedFormat)
       ELSE pc' = After(entry, pc) /\ err' = err
    /\ UNCHANGED << entry, format, encoder, samples, fileInfo, result, ioLog,
                    failures, buildVars, nativeVars, sampleVars, codecVars, fsVars,
                    invVars, g729Vars >>

\* _, err := t.ValidateInput(inputPath)
StepValidateInput ==
    /\ pc = "ValidateInput"
    /\ LET r == ValidateInput(inFile)
       IN  IF r.err # NoErr
           THEN Fail(Wrapf("input validation failed", r.err))
           ELSE pc' = After(entry, pc) /\ err' = err
    /\ ioLog' = ioLog \o ValidateInputIO(inFile)
    /\ failures' = IF ValidateInput(inFile).err = NoErr THEN failures
                   ELSE Append(failures, IF inFile.exists THEN "read input"
                                         ELSE "stat input")
    /\ UNCHANGED << entry, format, encoder, samples, fileInfo, result,
                    buildVars, nativeVars, sampleVars, codecVars, fsVars,
                    invVars, g729Vars >>

\* outputFile, err := os.Create(outputPath): the file is created or truncated
StepCreateOutput ==
    /\ pc = "CreateOutput"
    /\ IF ~outCreatable
       THEN /\ Fail(Wrapf("failed to create output file",
                          Errorf("permission denied")))
            /\ outFile' = outFile /\ outHandle' = outHandle
            /\ failures' = Append(failures, "create output")
       ELSE /\ outFile' = [exists |-> TRUE, data |-> << >>]
            /\ outHandle' = "open"
            /\ pc' = After(entry, pc) /\ err' = err
            /\ failures' = failures
    /\ ioLog' = Append(ioLog, "create output")
    /\ UNCHANGED << entry, format, encoder, samples, fileInfo, result,
                    inFile, readerIsFile, outCreatable, outSink, closeOk,
                    buildVars, nativeVars, sampleVars, codecVars,
                    invVars, g729Vars >>

\* encoder, err := GetEncoder(format)
StepGetEncoder ==
    /\ pc = "GetEncoder"
    /\ LET r == GetEncoder(format, cgo, initOk, opened + 1)
       IN  /\ IF r.err # NoErr
              THEN Fail(Wrapf("failed to get encoder", r.err))
              ELSE pc' = After(entry, pc) /\ err' = err
           /\ encoder' = r.encoder
           /\ opened' = IF r.encoder.type = "G729Encoder"
                        THEN opened + 1 ELSE opened
           /\ ioLog' = IF format = FormatG729 /\ cgo
                       THEN Append(ioLog, "init codec") ELSE ioLog
    /\ UNCHANGED << entry, format, samples, fileInfo, result, closed, failures,
                    buildVars, sampleVars, codecVars, fsVars,
                    invVars, g729Vars >>

\* inputFile, err := os.Open(inputPath)
StepOpenInput ==
    /\ pc = "OpenInput"
    /\ IF ~inFile.exists
       THEN Fail(Wrapf("failed to open input file",
                       Errorf("no such file or directory")))
       ELSE pc' = After(entry, pc) /\ err' = err
    /\ ioLog' = Append(ioLog, "open input")
    /\ failures' = IF inFile.exists THEN failures
                   ELSE Append(failures, "open input")
    /\ UNCHANGED << entry, format, encoder, samples, fileInfo, result,
                    buildVars, nativeVars, sampleVars, codecVars, fsVars,
                    invVars, g729Vars >>

\* samples, fileInfo, err := ReadWAVSamples(reader)
StepReadWAVSamples ==
    /\ pc = "ReadWAVSamples"
    /\ LET r == ReadWAVSamples([isFile |-> readerIsFile, file |-> inFile])
       IN  IF r.err # NoErr
           THEN /\ Fail(Wrapf("failed to read WAV samples", r.err))
                /\ failures' = Append(failures, "read input")
                /\ UNCHANGED << samples, fileInfo >>
           ELSE /\ samples' = r.samples
                /\ fileInfo' = r.fileInfo
                /\ failures' = failures
                /\ pc' = After(entry, pc) /\ err' = err
    /\ ioLog' = ioLog \o
                ReadWAVSamplesIO([isFile |-> readerIsFile, file |-> inFile])
    /\ UNCHANGED << entry, format, encoder, result,
                    buildVars, nativeVars, sampleVars, codecVars, fsVars,
                    invVars, g729Vars >>

\* err := encoder.Encode(samples, outputFile) or encoder.Encode(samples, writer)
StepEncode ==
    /\ pc = "Encode"
    /\ LET r == Encode(encoder, samples, outSink, bitStreamLength)
       IN  /\ outSink' = r.sink
           /\ outFile' = IF ToFile(entry)
                         THEN [outFile EXCEPT !.data = r.sink.data]
                         ELSE outFile
           /\ IF r.err # NoErr
              THEN Fail(Wrapf("encoding failed", r.err))
              ELSE pc' = After(entry, pc) /\ err' = err
           /\ ioLog' = IF r.sink # outSink \/ r.err # NoErr
                       THEN Append(ioLog, "write output") ELSE ioLog
           /\ failures' = IF r.err # NoErr
                          THEN Append(failures, "write output") ELSE failures
    /\ UNCHANGED << entry, format, encoder, samples, fileInfo, result,
                    inFile, readerIsFile, outCreatable, closeOk, outHandle,
                    buildVars, nativeVars, sampleVars, codecVars,
                    invVars, g729Vars >>

\* float64(outputStat.Size()) / float64(fileInfo.Size), 0.0 when that is 0
CompressionRatio(outSize, inSize) ==
    IF inSize > 0 THEN [num |-> outSize, den |-> inSize]
    ELSE [num |-> 0, den |-> 1]

\* os.Stat of the output, where there is one, and the TranscoderResult
StepFinalize ==
    /\ pc = "Finalize"
    /\ LET outSize == Len(outFile.data)
       IN  result' =
             << [InputFile  |-> fileInfo,
                 OutputFile |-> [Path |-> IF ToFile(entry) THEN "output" ELSE "",
                                 Size |-> IF ToFile(entry) THEN outSize ELSE 0,
                                 Type |-> format],
                 Stats |-> [CompressionRatio |->
                               IF entry = "Transcode"
                               THEN CompressionRatio(outSize, fileInfo.Size)
                               ELSE [num |-> 0, den |-> 1],
                            BitrateKbps |-> GetBitrate(encoder),
                            FramesProcessed |-> Len(samples)]] >>
    /\ pc' = After(entry, pc)
    /\ ioLog' = IF ToFile(entry) THEN Append(ioLog, "stat output") ELSE ioLog
    /\ UNCHANGED << entry, format, encoder, samples, fileInfo, err, failures,
                    buildVars, nativeVars, sampleVars, codecVars, fsVars,
                    invVars, g729Vars >>

\* defer func() { _ = outputFile.Close() }(), run as the call returns
StepDeferredClose ==
    /\ pc \in {"Completed", "Failed"}
    /\ outHandle = "open"
    /\ outHandle' = IF closeOk THEN "closed" ELSE "close failed"
    /\ ioLog' = Append(ioLog, "close output")
    /\ failures' = IF closeOk THEN failures
                   ELSE Append(failures, "close output")
    /\ UNCHANGED << entry, format, pc, encoder, samples, fileInfo, err, result,
                    inFile, readerIsFile, outCreatable, outFile, outSink,
                    closeOk, buildVars, nativeVars, sampleVars, codecVars,
                    invVars, g729Vars >>

Next ==
    \/ StepValidateFormat
    \/ StepValidateInput
    \/ StepCreateOutput
    \/ StepGetEncoder
    \/ StepOpenInput
    \/ StepReadWAVSamples
    \/ StepEncode
    \/ StepFinalize
    \/ StepDeferredClose

Spec == Init /\ [][Next]_vars

(***************************************************************************)
(* Claims on the orchestrator (Spec).                                      *)
(***************************************************************************)
Returned == pc \in {"Completed", "Failed"}

Readable == inFile.exists /\ inFile.formatOk

\* C7: validating a WAV with 2 channels, or 44100 Hz, or 8-bit depth fails
\* with an error that has ErrInvalidInput in its wrap chain.
C7_InvalidInputTyped ==
    (/\ entry \in {"Transcode", "TranscodeToWriter"}
     /\ IsValidFormat(format)
     /\ Readable
     /\ \/ inFile.hdr.NumChannels = 2
        \/ inFile.hdr.SampleRate = 44100
        \/ inFile.hdr.BitsPerSample = 8
     /\ Returned)
    => (pc = "Failed" /\ ErrorsIs(err, ErrInvalidInput))

\* C8: when the input WAV is not PCM-tagged, or not mono, or not 8000 Hz, or
\* not 16-bit, no entry point returns success, no byte reaches the output
\* sink or the output file, and ReadWAVSamples hands out no samples.
C8_FailClosed ==
    (Readable /\ inFile.hdr # ValidHeader) =>
        /\ pc \notin {"Encode", "Finalize", "Completed"}
        /\ result = NoResult
        /\ outSink.data = << >>
        /\ outFile.data \in {<< >>, << 1 >>}
        /\ samples = << >> /\ fileInfo = NilInfo
        /\ Returned => (pc = "Failed" /\ err # NoErr)

C8_Witness ==
    /\ Readable /\ inFile.hdr.AudioFormat = 3 /\ Len(inFile.samples) = MaxSamples
    /\ entry = "TranscodeFromReader" /\ readerIsFile
    /\ format = FormatULaw
    /\ pc = "Failed" /\ ErrorsIs(err, ErrInvalidFormat)

\* C9: every native G.729 encoder handle acquired during a transcode call
\* has been released exactly once by the time the call returns.
C9_HandleReleased ==
    Returned =>
        \A h \in 1 .. opened :
            Cardinality({i \in 1 .. Len(closed) : closed[i] = h}) = 1

\* C10: on a successful file-to-file Transcode of a valid, non-empty WAV,
\* Stats.CompressionRatio is the output size divided by the input file size.
C10_CompressionRatio ==
    (/\ entry = "Transcode" /\ pc = "Completed"
     /\ Len(inFile.samples) > 0)
    => LET ratio == result[1].Stats.CompressionRatio
       IN  ratio.num * inFile.size = Len(outFile.data) * ratio.den

\* the transcode call could complete: a conformant WAV behind the input, an
\* encoder for the format in this build, an output that can be created and
\* a sink that takes every write
Conformant ==
    /\ Readable /\ inFile.hdr = ValidHeader
    /\ GetEncoder(format, cgo, initOk, 1).err = NoErr
    /\ outCreatable /\ outSink.budget = NeverFails

\* C12: TranscodeFromReader accepts any reader that delivers a conformant
\* WAV stream, an *os.File or not (memory buffer, network stream, pipe,
\* archive entry), and produces the result it produces for the file: the
\* call completes and the output holds the encoding of the WAV's samples.
C12_AnyReader ==
    (entry = "TranscodeFromReader" /\ Conformant /\ Returned) =>
        /\ pc = "Completed"
        /\ result[1].Stats.FramesProcessed = Len(inFile.samples)
        /\ outFile.data =
              Encode(encoder, inFile.samples, NewSink(NeverFails),
                     bitStreamLength).sink.data

\* C14: a call of any entry point with a format outside g729, ulaw, alaw,
\* slin does nothing but return ErrUnsupportedFormat: its only step leaves
\* the file system, the reader and writer, the codec library and the call's
\* encoder and samples as they were, and logs no operation.
C14_RejectsBeforeIO ==
    [][format \notin {FormatG729, FormatULaw, FormatALaw, FormatSLIN} =>
          /\ pc' = "Failed" /\ err' = ErrUnsupportedFormat
          /\ ioLog' = << >>
          /\ encoder' = Nil /\ samples' = << >> /\ result' = NoResult
          /\ UNCHANGED << fsVars, nativeVars >>]_vars

C14_Witness ==
    /\ format = "mp3" /\ entry = "Transcode"
    /\ inFile.exists /\ outCreatable /\ outFile = [exists |-> TRUE, data |-> << 1 >>]
    /\ pc = "Failed" /\ err = ErrUnsupportedFormat /\ ioLog = << >>

\* how often operation op occurs in the call's log
Count(op) == Cardinality({i \in 1 .. Len(ioLog) : ioLog[i] = op})

\* C24: every entry point validates the format, validates the input,
\* acquires the encoder, decodes, encodes and finalizes in this order: an
\* encoder is acquired only once the input has been read and found valid,
\* and a call that failed has no result.
C24_StepsInOrder ==
    /\ encoder # Nil => (Count("read input") >= 1 /\ "read input" \notin
                            {failures[i] : i \in 1 .. Len(failures)})
    /\ pc = "Failed" => result = NoResult

\* C25: within one call the input is decoded into samples exactly once, so
\* the samples validated are the samples encoded.
C25_DecodedOnce ==
    pc = "Completed" => Count("read input") = 1

\* C26: a failed stat, open or read of the input, or a failed create, write,
\* stat or close of the output file, makes the call return an error that
\* wraps the cause under the operation's context, and no result.
C26_FailuresReported ==
    (Returned /\ outHandle # "open" /\ failures # << >>) =>
        /\ pc = "Failed"
        /\ Len(err) >= 2
        /\ result = NoResult

\* C27: a Transcode or TranscodeFromReader call that fails at format
\* validation, at input validation or decoding, or at encoder acquisition
\* has neither created nor truncated the file at the output path.
C27_OutputUntouched ==
    (/\ ToFile(entry) /\ pc = "Failed"
     /\ err[1] \in {"ErrUnsupportedFormat", "input validation failed",
                    "failed to read WAV samples", "failed to get encoder"})
    => /\ Count("create output") = 0
       /\ outHandle = "none"
       /\ outFile \in {[exists |-> FALSE, data |-> << >>],
                       [exists |-> TRUE, data |-> << 1 >>]}

(***************************************************************************)
(* SpecG729: one native G.729 encoder, Encode calls on it and Close calls  *)
(* before, between or after them.  The codec reports its own number of     *)
(* valid bytes for every frame.                                            *)
(***************************************************************************)
\* Encode calls made on the one encoder
MaxEncodes == 2

\* valid bytes the codec reports for a frame: a speech frame, a silence
\* descriptor, nothing to transmit
CodecLens == {0, 2, 10}

\* sample counts at and around the frame boundaries
SampleCounts ==
    {n \in 0 .. frameSize * MaxFrames :
        \E f \in 0 .. MaxFrames : n \in {frameSize * f - 1, frameSize * f,
                                         frameSize * f + 1}}

\* n samples that are all different and none of them 0
Ramp(n) == [k \in 1 .. n |-> k]

InitG729 ==
    /\ cgo = TRUE /\ initOk = TRUE /\ bitStreamLength = 10
    /\ opened = 1 /\ closed = << >>
    /\ SampleIdle /\ CodecIdle /\ FsIdle /\ CallIdle /\ InvIdle /\ DecoderIdle
    /\ \E n \in SampleCounts, ls \in [1 .. MaxFrames -> CodecLens],
          budget \in SinkBudgets :
          g729 = [encoder |-> NewG729Encoder(cgo, initOk, opened).encoder,
                  samples |-> Ramp(n), lens |-> ls,
                  sink    |-> NewSink(budget),
                  encodes |-> 0, closes |-> 0,
                  err |-> NoErr, frames |-> << >>, writes |-> << >>,
                  sinkBefore |-> NewSink(budget), closesBefore |-> 0]

\* err := encoder.Encode(samples, writer); frames, writes and err are those
\* of the latest call, sinkBefore and closesBefore the writer and the number
\* of Close calls it found
G729Encode ==
    /\ g729.encodes < MaxEncodes
    /\ LET r == G729EncoderEncodeTraced(g729.encoder, g729.samples, g729.sink,
                                        g729.lens)
       IN  g729' = [g729 EXCEPT !.sink = r.sink, !.err = r.err,
                                !.frames = r.frames, !.writes = r.writes,
                                !.encodes = @ + 1,
                                !.sinkBefore = g729.sink,
                                !.closesBefore = g729.closes]
    /\ UNCHANGED << buildVars, nativeVars, sampleVars, codecVars, fsVars,
                    callVars, invVars, dec >>

\* encoder.Close()
G729Close ==
    /\ g729.closes < 2
    /\ IF g729.encoder.encoder # 0
       THEN /\ closed' = Append(closed, g729.encoder.encoder)
            /\ g729' = [g729 EXCEPT !.encoder = G729Encoder(0),
                                    !.closes = @ + 1]
       ELSE /\ closed' = closed
            /\ g729' = [g729 EXCEPT !.closes = @ + 1]
    /\ UNCHANGED << opened, buildVars, sampleVars, codecVars, fsVars,
                    callVars, invVars, dec >>

NextG729 == G729Encode \/ G729Close

SpecG729 == InitG729 /\ [][NextG729]_vars

(***************************************************************************)
(* Claims on the G.729 encoder (SpecG729).                                 *)
(***************************************************************************)
\* C16: G729Encoder.Encode hands the codec exactly ceil(N / 80) frames of 80
\* samples for N input samples, in input order: frame k (from 0) holds
\* samples 80k .. 80k+79, positions past the end of the input hold 0, and
\* N = 0 hands it no frame.
C16_FramePartition ==
    g729.encodes = 1 =>
        LET N == Len(g729.samples)
        IN  /\ \A k \in 0 .. Len(g729.frames) - 1 :
                  /\ DOMAIN g729.frames[k + 1] = 1 .. 80
                  /\ \A j \in 0 .. 79 :
                        g729.frames[k + 1][j + 1] =
                            (IF 80 * k + j < N
                             THEN g729.samples[80 * k + j + 1] ELSE 0)
            /\ g729.err = NoErr =>
                  /\ Len(g729.frames) = (N + 79) \div 80
                  /\ N = 0 => g729.frames = << >>

C16_Witness ==
    /\ g729.encodes = 1 /\ g729.err = NoErr
    /\ Len(g729.samples) = 81 /\ Len(g729.frames) = 2
    /\ g729.frames[1][80] = 80
    /\ g729.frames[2][1] = 81 /\ g729.frames[2][2] = 0

RECURSIVE Flatten(_)
Flatten(chunks) ==
    IF chunks = << >> THEN << >> ELSE Head(chunks) \o Flatten(Tail(chunks))

\* the valid bytes of frames 1 .. k, one chunk for each frame that has any
RECURSIVE ValidChunks(_, _, _)
ValidChunks(fs, ls, k) ==
    IF k = 0 THEN << >>
    ELSE IF ls[k] > 0
         THEN Append(ValidChunks(fs, ls, k - 1), bcg729Encoder(fs[k], ls[k]))
         ELSE ValidChunks(fs, ls, k - 1)

RECURSIVE SumTo(_, _)
SumTo(ls, k) == IF k = 0 THEN 0 ELSE ls[k] + SumTo(ls, k - 1)

\* C17: for every frame the encoder writes exactly the bytes the codec
\* reports valid (0 to 10 of them), one Write per frame, in frame order and
\* with nothing in between; a frame reported with 0 bytes gets no Write and
\* no bytes; when every frame is reported with 10 bytes the output is
\* 10 * ceil(N / 80) bytes, 2020 bytes for 16104 samples.
C17_ValidBytesOnly ==
    (g729.encodes = 1 /\ g729.err = NoErr) =>
        LET N == Len(g729.samples)
            F == Len(g729.frames)
        IN  /\ g729.writes = ValidChunks(g729.frames, g729.lens, F)
            /\ g729.sink.data = Flatten(g729.writes)
            /\ Len(g729.sink.data) = SumTo(g729.lens, F)
            /\ (\A k \in 1 .. F : g729.lens[k] = 10) =>
                  Len(g729.sink.data) = 10 * ((N + 79) \div 80)
            /\ 10 * ((16104 + 79) \div 80) = 2020

C17_Witness ==
    /\ g729.encodes = 1 /\ g729.err = NoErr
    /\ Len(g729.samples) = 161 /\ g729.lens = << 10, 0, 2 >>
    /\ Len(g729.writes) = 2 /\ Len(g729.sink.data) = 12
    /\ g729.sink.data[11] = (161 + 1) % 256

\* C29: over any sequence of Encode and Close calls on a G729Encoder the
\* native handle is released at most once, and every Encode made after a
\* Close returns an error, hands the codec no frame and leaves the sink as
\* it found it.
C29_CloseOnceThenRefuse ==
    /\ \A i, j \in 1 .. Len(closed) : closed[i] = closed[j] => i = j
    /\ (g729.encodes >= 1 /\ g729.closesBefore >= 1) =>
          /\ g729.err # NoErr
          /\ g729.frames = << >> /\ g729.writes = << >>
          /\ g729.sink = g729.sinkBefore

C29_Witness ==
    /\ g729.closes = 2 /\ closed = << 1 >>
    /\ g729.encodes = 2 /\ g729.closesBefore = 1
    /\ Len(g729.samples) = 161 /\ g729.lens = << 10, 10, 10 >>
    /\ Len(g729.sink.data) = 30
    /\ g729.err = Errorf("encoder not initialized")

(***************************************************************************)
(* SpecDecode: one G729Decoder, one Decode call on it and a Close before   *)
(* or after.  The reader delivers its bytes in Read calls of any size and  *)
(* ends them with io.EOF, along with the last bytes or on a Read of its    *)
(* own, or with an error.                                                  *)
(***************************************************************************)
\* Read calls that deliver bytes
MaxReads == 4

\* bytes one Read call delivers into the 10-byte buffer
ReadSizes == {3, 7, 10}

\* how the reader ends: io.EOF returned with the last bytes, io.EOF returned
\* by a Read that delivers nothing, an error other than io.EOF
ReaderEnds == {"eof with last", "eof after", "error after"}

\* bytes delivered by the first k Read calls
RECURSIVE Delivered(_, _)
Delivered(chunks, k) ==
    IF k = 0 THEN 0 ELSE chunks[k] + Delivered(chunks, k - 1)

\* the byte at position p of the stream, positions from 1
StreamByte(p) == p % 256

\* reader.Read(buffer), call number i: the bytes copied to the front of the
\* buffer, their number and the error
Read(rd, buffer, i) ==
    IF i <= Len(rd.chunks)
    THEN LET n   == rd.chunks[i]
             off == Delivered(rd.chunks, i - 1)
         IN  [n |-> n,
              buffer |-> [j \in 1 .. 10 |->
                            IF j <= n THEN StreamByte(off + j) ELSE buffer[j]],
              err |-> IF i = Len(rd.chunks) /\ rd.end = "eof with last"
                      THEN "EOF" ELSE "nil"]
    ELSE [n |-> 0, buffer |-> buffer,
          err |-> IF rd.end = "error after" THEN "error" ELSE "EOF"]

\* C.bcg729Decoder: 80 samples, 160 bytes, for a 10-byte frame
bcg729Decoder(frame) == [j \in 1 .. 160 |-> (frame[1] + j) % 256]

InitDecode ==
    /\ cgo = TRUE /\ initOk = TRUE /\ bitStreamLength = 10
    /\ NativeInit /\ SampleIdle /\ CodecIdle /\ FsIdle /\ CallIdle /\ InvIdle
    /\ g729 = [pc |-> ""]
    /\ \E cs \in SeqsUpTo(ReadSizes, MaxReads), end \in ReaderEnds,
          budget \in SinkBudgets :
          /\ Delivered(cs, Len(cs)) % 10 = 0
          /\ dec = [pc |-> "ready", decoder |-> 1, closes |-> 0,
                    reader |-> [chunks |-> cs, end |-> end],
                    reads |-> 0, buffer |-> [j \in 1 .. 10 |-> 0],
                    sink |-> NewSink(budget),
                    frames |-> << >>, err |-> NoErr]

\* Decode up to its loop: if d.decoder == nil { return error }
DecodeCall ==
    /\ dec.pc = "ready"
    /\ dec' = IF dec.decoder = 0
              THEN [dec EXCEPT !.pc = "returned",
                               !.err = Errorf("decoder not initialized")]
              ELSE [dec EXCEPT !.pc = "reading"]
    /\ UNCHANGED << buildVars, nativeVars, sampleVars, codecVars, fsVars,
                    callVars, invVars, g729 >>

\* one iteration of Decode's loop
DecodeRead ==
    /\ dec.pc = "reading"
    /\ LET r == Read(dec.reader, dec.buffer, dec.reads + 1)
           d == [dec EXCEPT !.reads = @ + 1, !.buffer = r.buffer]
       IN  dec' =
             IF r.err = "EOF" THEN [d EXCEPT !.pc = "returned"]
             ELSE IF r.err # "nil"
             THEN [d EXCEPT !.pc = "returned",
                            !.err = Wrapf("failed to read G.729 data",
                                          Errorf("read failed"))]
             ELSE IF r.n # 10
             THEN [d EXCEPT !.pc = "returned",
                            !.err = Errorf("incomplete G.729 frame")]
             ELSE LET w == Write(d.sink, bcg729Decoder(d.buffer))
                  IN  IF w.err # NoErr
                      THEN [d EXCEPT !.pc = "returned",
                                     !.frames = Append(@, d.buffer),
                                     !.err = Wrapf("failed to write PCM data",
                                                   w.err)]
                      ELSE [d EXCEPT !.frames = Append(@, d.buffer),
                                     !.sink = w.sink]
    /\ UNCHANGED << buildVars, nativeVars, sampleVars, codecVars, fsVars,
                    callVars, invVars, g729 >>

\* decoder.Close()
DecoderClose ==
    /\ dec.pc \in {"ready", "returned"}
    /\ dec.closes = 0
    /\ dec' = [dec EXCEPT !.decoder = 0, !.closes = 1]
    /\ UNCHANGED << buildVars, nativeVars, sampleVars, codecVars, fsVars,
                    callVars, invVars, g729 >>

NextDecode == DecodeCall \/ DecodeRead \/ DecoderClose

SpecDecode == InitDecode /\ [][NextDecode]_vars

(***************************************************************************)
(* Claims on the G.729 decoder (SpecDecode).                               *)
(***************************************************************************)
\* C30: Decode on a reader that delivers exactly 10 * k bytes decodes k
\* frames, writes exactly 160 * k bytes of PCM and returns no error, however
\* the reader splits the bytes over its Read calls and whether it reports
\* io.EOF with the last bytes or on a Read of its own.
C30_DecodesWholeStream ==
    (/\ dec.pc = "returned" /\ dec.err # Errorf("decoder not initialized")
     /\ dec.reader.end \in {"eof with last", "eof after"}
     /\ dec.sink.budget = NeverFails)
    => LET k == Delivered(dec.reader.chunks, Len(dec.reader.chunks)) \div 10
       IN  /\ dec.err = NoErr
           /\ Len(dec.frames) = k
           /\ Len(dec.sink.data) = 160 * k

(***************************************************************************)
(* SpecCalls: two transcode calls on one transcoder, each with its own     *)
(* input, output and locals, their steps interleaved in every order (one   *)
(* call after the other included).  The calls share the transcoder, the    *)
(* build and the native library.                                           *)
(***************************************************************************)
Callers == {1, 2}

\* a call before its first statement; the output does not exist yet and
\* takes every write
NewCall(e, fmt, f, isFile) ==
    [entry |-> e, format |-> fmt, inFile |-> f, readerIsFile |-> isFile,
     outFile |-> [exists |-> FALSE, data |-> << >>],
     outSink |-> NewSink(NeverFails),
     pc |-> "ValidateFormat", encoder |-> Nil, samples |-> << >>,
     fileInfo |-> NilInfo, err |-> NoErr, result |-> NoResult]

\* what a step leaves: the call, and the state the calls share
Local(c, sh) == [call |-> c, opened |-> sh.opened, transcoder |-> sh.transcoder]

Goto(c) == [c EXCEPT !.pc = After(c.entry, c.pc)]
FailWith(c, e) == [c EXCEPT !.pc = "Failed", !.err = e]

\* a transcoder that keeps the outcome of its first GetEncoder and hands it
\* to every later call
AcquireEncoder_Cached(c, sh) ==
    IF "cache" \in DOMAIN sh.transcoder
    THEN LET r == sh.transcoder.cache
         IN  [call |-> IF r.err # NoErr
                       THEN [FailWith(c, Wrapf("failed to get encoder", r.err))
                                EXCEPT !.encoder = r.encoder]
                       ELSE [Goto(c) EXCEPT !.encoder = r.encoder],
              opened |-> sh.opened, transcoder |-> sh.transcoder]
    ELSE LET r == GetEncoder(c.format, sh.cgo, sh.initOk, sh.opened + 1)
         IN  [call |-> IF r.err # NoErr
                       THEN [FailWith(c, Wrapf("failed to get encoder", r.err))
                                EXCEPT !.encoder = r.encoder]
                       ELSE [Goto(c) EXCEPT !.encoder = r.encoder],
              opened |-> IF r.encoder.type = "G729Encoder"
                         THEN sh.opened + 1 ELSE sh.opened,
              transcoder |-> [verbose |-> sh.transcoder.verbose, cache |-> r]]

\* encoder, err := GetEncoder(format)
AcquireEncoder(c, sh) ==
    LET r == GetEncoder(c.format, sh.cgo, sh.initOk, sh.opened + 1)
    IN  [call |-> IF r.err # NoErr
                  THEN [FailWith(c, Wrapf("failed to get encoder", r.err))
                           EXCEPT !.encoder = r.encoder]
                  ELSE [Goto(c) EXCEPT !.encoder = r.encoder],
         opened |-> IF r.encoder.type = "G729Encoder"
                    THEN sh.opened + 1 ELSE sh.opened,
         transcoder |-> sh.transcoder]

\* the TranscoderResult of a call that got through
Result(c) ==
    LET outSize == Len(c.outFile.data)
    IN  [InputFile  |-> c.fileInfo,
         OutputFile |-> [Path |-> IF ToFile(c.entry) THEN "output" ELSE "",
                         Size |-> IF ToFile(c.entry) THEN outSize ELSE 0,
                         Type |-> c.format],
         Stats |-> [CompressionRatio |->
                       IF c.entry = "Transcode"
                       THEN CompressionRatio(outSize, c.fileInfo.Size)
                       ELSE [num |-> 0, den |-> 1],
                    BitrateKbps |-> GetBitrate(c.encoder),
                    FramesProcessed |-> Len(c.samples)]]

\* the statements of a call at step c.pc, as in Steps(c.entry)
TranscodeStep(c, sh) ==
    CASE c.pc = "ValidateFormat" ->
            Local(IF ~IsValidFormat(c.format)
                  THEN FailWith(c, ErrUnsupportedFormat) ELSE Goto(c), sh)
      [] c.pc = "ValidateInput" ->
            LET r == ValidateInput(c.inFile)
            IN  Local(IF r.err # NoErr
                      THEN FailWith(c, Wrapf("input validation failed", r.err))
                      ELSE Goto(c), sh)
      [] c.pc = "CreateOutput" ->
            Local([Goto(c) EXCEPT !.outFile = [exists |-> TRUE, data |-> << >>]],
                  sh)
      [] c.pc = "GetEncoder" -> AcquireEncoder(c, sh)
      [] c.pc = "OpenInput" ->
            Local(IF ~c.inFile.exists
                  THEN FailWith(c, Wrapf("failed to open input file",
                                         Errorf("no such file or directory")))
                  ELSE Goto(c), sh)
      [] c.pc = "ReadWAVSamples" ->
            LET r == ReadWAVSamples([isFile |-> c.readerIsFile,
                                     file |-> c.inFile])
            IN  Local(IF r.err # NoErr
                      THEN FailWith(c, Wrapf("failed to read WAV samples", r.err))
                      ELSE [Goto(c) EXCEPT !.samples = r.samples,
                                           !.fileInfo = r.fileInfo], sh)
      [] c.pc = "Encode" ->
            LET r == Encode(c.encoder, c.samples, c.outSink, sh.bitStreamLength)
                w == [c EXCEPT !.outSink = r.sink,
                               !.outFile = IF ToFile(c.entry)
                                           THEN [c.outFile EXCEPT
                                                    !.data = r.sink.data]
                                           ELSE c.outFile]
            IN  Local(IF r.err # NoErr
                      THEN FailWith(w, Wrapf("encoding failed", r.err))
                      ELSE Goto(w), sh)
      [] c.pc = "Finalize" ->
            Local([Goto(c) EXCEPT !.result = << Result(c) >>], sh)

Done(c) == c.pc \in {"Completed", "Failed"}

\* the call run from step c.pc to its return with no other call about
RECURSIVE Run(_, _)
Run(c, sh) ==
    IF Done(c) THEN c
    ELSE LET r == TranscodeStep(c, sh)
         IN  Run(r.call, [sh EXCEPT !.opened = r.opened,
                                    !.transcoder = r.transcoder])

\* the inputs of the calls: conformant WAVs of every length, and a stereo one
CallInputs ==
    {WavFile(ValidHeader, ss, TRUE) : ss \in SeqsUpTo({100}, MaxSamples)}
    \cup {WavFile([ValidHeader EXCEPT !.NumChannels = 2], << 100 >>, TRUE)}

CallFormats == {FormatG729, FormatULaw, FormatALaw, FormatSLIN}

NewCalls ==
    {NewCall(e, fmt, f, isFile) :
        e \in Entries, fmt \in CallFormats, f \in CallInputs,
        isFile \in BOOLEAN}

InitCalls ==
    /\ \E bd \in Builds :
          /\ cgo = bd.cgo /\ initOk = bd.initOk
          /\ bitStreamLength = bd.bitStreamLength
    /\ NativeInit /\ SampleIdle /\ CodecIdle /\ FsIdle /\ CallIdle /\ G729Idle
    /\ transcoder = NewTranscoder(FALSE)
    /\ inv \in [Callers -> NewCalls]
    /\ \A p \in Callers :
          inv[p].entry # "TranscodeFromReader" => inv[p].readerIsFile

Shared ==
    [cgo |-> cgo, initOk |-> initOk, bitStreamLength |-> bitStreamLength,
     opened |-> opened, transcoder |-> transcoder]

\* the next step of call p
CallStep(p) ==
    /\ ~Done(inv[p])
    /\ LET r == TranscodeStep(inv[p], Shared)
       IN  /\ inv' = [inv EXCEPT ![p] = r.call]
           /\ opened' = r.opened
           /\ transcoder' = r.transcoder
    /\ UNCHANGED << closed, buildVars, sampleVars, codecVars, fsVars,
                    callVars, g729Vars >>

NextCalls == \E p \in Callers : CallStep(p)

SpecCalls == InitCalls /\ [][NextCalls]_vars

(***************************************************************************)
(* Claims on several calls (SpecCalls).                                    *)
(***************************************************************************)
\* the call as it was made
AsMade(c) == NewCall(c.entry, c.format, c.inFile, c.readerIsFile)

\* what the call returns and leaves when it is the only call ever made on a
\* fresh transcoder in this build
Alone(c) ==
    Run(AsMade(c), [Shared EXCEPT !.opened = 0,
                                  !.transcoder = NewTranscoder(FALSE)])

\* what a caller can see of a call that has returned
Outcome(c) ==
    [pc |-> c.pc, err |-> c.err, result |-> c.result,
     written |-> c.outSink.data, outFile |-> c.outFile]

\* C19: two transcode calls run concurrently on one transcoder, on the same
\* or different inputs and with different outputs, each return what they
\* return when run alone, result, error and output bytes, however their
\* steps interleave.
C19_CallsIndependent ==
    \A p \in Callers :
        Done(inv[p]) => Outcome(inv[p]) = Outcome(Alone(inv[p]))

C19_Witness ==
    /\ inv[1].format = FormatG729 /\ inv[2].format = FormatG729
    /\ inv[1].pc = "Completed" /\ inv[2].pc = "Completed"
    /\ inv[1].encoder.encoder = 2 /\ inv[2].encoder.encoder = 1
    /\ inv[1].entry = "TranscodeFromReader" /\ inv[2].entry = "TranscodeToWriter"
    /\ Len(inv[1].samples) = 1 /\ Len(inv[2].samples) = MaxSamples
    /\ Len(inv[1].outFile.data) = bitStreamLength
    /\ bitStreamLength > 0

\* C11: for one valid WAV input and one target format, Transcode,
\* TranscodeFromReader and TranscodeToWriter validate alike (all succeed or
\* all fail), emit the same bytes to their sinks, and return results that
\* agree on the input metadata, on OutputFile.Size, which is the number of
\* bytes emitted, on the bitrate, the sample count and the compression
\* ratio.
C11_EntryPointsAgree ==
    (/\ inv[1].inFile = inv[2].inFile /\ inv[1].format = inv[2].format
     /\ inv[1].readerIsFile /\ inv[2].readerIsFile
     /\ Done(inv[1]) /\ Done(inv[2]))
    => /\ inv[1].pc = inv[2].pc
       /\ inv[1].pc = "Completed" =>
             LET r1 == inv[1].result[1]
                 r2 == inv[2].result[1]
             IN  /\ inv[1].outSink.data = inv[2].outSink.data
                 /\ r1.InputFile = r2.InputFile
                 /\ r1.OutputFile.Size = Len(inv[1].outSink.data)
                 /\ r2.OutputFile.Size = Len(inv[2].outSink.data)
                 /\ r1.Stats = r2.Stats

====
